---- MODULE Spec2Model ----
(***************************************************************************)
(* A model of src/parseh.cpp: the translation of the exported function     *)
(* declarations of a C header into an `extern { ... }` block.              *)
(*                                                                         *)
(* Text (C strings, Buf contents, the bytes written to a FILE) is a        *)
(* sequence of one-character strings, so that prefixes, suffixes and       *)
(* concatenation are computed character by character, as the code does.    *)
(***************************************************************************)
EXTENDS Integers, Sequences, FiniteSets, TLC

VARIABLES
    pc,          \* position of the process in parse_h_file (or in a harness)
    spelling,    \* clang_getTypeSpelling(type), the input of prefixes_stripped
    stripped,    \* successive results of prefixes_stripped
    raw_type,    \* the CXType handed to to_zig_type
    zig_type,    \* what to_zig_type did with raw_type
    env,         \* getenv("ZIG_PARSEH_CFLAGS"): a string or NullPtr
    start,       \* char *start, as an offset (1-based) into env
    clang_argv,  \* ZigList<const char *> *clang_argv
    fn_list,     \* ParseH.fn_list
    cur_fn,      \* ParseH.cur_fn: <<>> is the null pointer, <<fn>> points to fn
    arg_index,   \* ParseH.arg_index
    cur_indent,  \* ParseH.cur_indent
    location,    \* ParseH.location: the ordinal of the cursor being visited
    out,         \* the bytes written to FILE *f
    err,         \* the lines written to stderr
    diag_count,  \* unsigned diag_count = clang_getNumDiagnostics(tu)
    cursor,      \* the cursor fn_visitor was last called with
    stack,       \* clang_visitChildren: the cursors whose children are being visited
    accepted,    \* history: the function declarations fn_visitor accepted, in order
    argv0        \* history: clang_argv as the caller passed it

stripVars == <<spelling, stripped>>
typeVars  == <<raw_type, zig_type>>
argVars   == <<env, start, clang_argv, argv0>>
runVars   == <<fn_list, cur_fn, arg_index, cur_indent, location, out, err,
               diag_count, cursor, stack, accepted>>
vars      == <<pc, stripVars, typeVars, argVars, runVars>>

----------------------------------------------------------------------------
(* String literals of the source. *)

S_struct_ == <<"s", "t", "r", "u", "c", "t", " ">>
S_enum_ == <<"e", "n", "u", "m", " ">>
S_const_ == <<"c", "o", "n", "s", "t", " ">>
S_void == <<"v", "o", "i", "d">>
S_bool == <<"b", "o", "o", "l">>
S_i8 == <<"i", "8">>
S_u8 == <<"u", "8">>
S_i16 == <<"i", "1", "6">>
S_u16 == <<"u", "1", "6">>
S_i32 == <<"i", "3", "2">>
S_u32 == <<"u", "3", "2">>
S_i64 == <<"i", "6", "4">>
S_u64 == <<"u", "6", "4">>
S_c_ushort == <<"c", "_", "u", "s", "h", "o", "r", "t">>
S_c_uint == <<"c", "_", "u", "i", "n", "t">>
S_c_ulong == <<"c", "_", "u", "l", "o", "n", "g">>
S_c_ulonglong == <<"c", "_", "u", "l", "o", "n", "g", "l", "o", "n", "g">>
S_c_short == <<"c", "_", "s", "h", "o", "r", "t">>
S_c_int == <<"c", "_", "i", "n", "t">>
S_c_long == <<"c", "_", "l", "o", "n", "g">>
S_c_longlong == <<"c", "_", "l", "o", "n", "g", "l", "o", "n", "g">>
S_f32 == <<"f", "3", "2">>
S_f64 == <<"f", "6", "4">>
S_f128 == <<"f", "1", "2", "8">>
S_ptr_const_ == <<"*", "c", "o", "n", "s", "t", " ">>
S_ptr_mut_ == <<"*", "m", "u", "t", " ">>
S_ptr_const_u8 == <<"*", "c", "o", "n", "s", "t", " ", "u", "8">>
S_int8_t == <<"i", "n", "t", "8", "_", "t">>
S_uint8_t == <<"u", "i", "n", "t", "8", "_", "t">>
S_int16_t == <<"i", "n", "t", "1", "6", "_", "t">>
S_uint16_t == <<"u", "i", "n", "t", "1", "6", "_", "t">>
S_int32_t == <<"i", "n", "t", "3", "2", "_", "t">>
S_uint32_t == <<"u", "i", "n", "t", "3", "2", "_", "t">>
S_int64_t == <<"i", "n", "t", "6", "4", "_", "t">>
S_uint64_t == <<"u", "i", "n", "t", "6", "4", "_", "t">>
S_extern_open == <<"e", "x", "t", "e", "r", "n", " ", "{", "\n">>
S_close == <<"}", "\n">>
S_fn_ == <<"f", "n", " ">>
S_lparen == <<"(">>
S_rparen == <<")">>
S_colon_ == <<":", " ">>
S_comma_ == <<",", " ">>
S_arrow_ == <<" ", "-", ">", " ">>
S_semi_nl == <<";", "\n">>
S_space == <<" ">>
S_lbracket == <<"[">>
S_semi_ == <<";", " ">>
S_rbracket == <<"]">>
S_minus == <<"-">>

(* static const int indent_size = 4; *)
indent_size == 4

(* The null pointer, as an element of clang_argv or as the value of getenv:
   no string, since every element of a string is one character. *)
NullPtr == <<"nullptr">>

----------------------------------------------------------------------------
(* str_has_prefix and prefixes_stripped *)

RECURSIVE str_has_prefix(_, _)
str_has_prefix(str, prefix) ==
    IF prefix = <<>> THEN TRUE
    ELSE IF str # <<>> /\ Head(str) = Head(prefix)
         THEN str_has_prefix(Tail(str), Tail(prefix))
         ELSE FALSE

prefixes == <<S_struct_, S_enum_, S_const_>>

(* c_name += n *)
Advance(c_name, n) == SubSeq(c_name, n + 1, Len(c_name))

(* A plausible slip: the loop without `goto start_over`, one pass over the
   candidates. *)
RECURSIVE OnePass(_, _)
OnePass(c_name, i) ==
    IF i > Len(prefixes) THEN c_name
    ELSE IF str_has_prefix(c_name, prefixes[i])
         THEN OnePass(Advance(c_name, Len(prefixes[i])), i + 1)
         ELSE OnePass(c_name, i + 1)

prefixes_stripped_once(c_name) == OnePass(c_name, 1)

RECURSIVE prefixes_stripped(_)
prefixes_stripped(c_name) ==
    LET matching == {i \in 1..Len(prefixes) : str_has_prefix(c_name, prefixes[i])}
    IN  IF matching = {} THEN c_name
        ELSE LET i == CHOOSE k \in matching : \A j \in matching : k <= j
             IN  prefixes_stripped(Advance(c_name, Len(prefixes[i])))

----------------------------------------------------------------------------
(* Type descriptors (CXType): a record with the kind, the const qualifier
   and what the libclang accessors used by to_zig_type return for it. *)

ScalarType(kind, c) == [kind |-> kind, isConst |-> c]
PointerType(c, pointee) == [kind |-> "Pointer", isConst |-> c, pointee |-> pointee]
IncompleteArrayType(element) ==
    [kind |-> "IncompleteArray", isConst |-> FALSE, element |-> element]
ConstantArrayType(element, size) ==
    [kind |-> "ConstantArray", isConst |-> FALSE, element |-> element, size |-> size]
Qualified(c, name) == (IF c THEN S_const_ ELSE <<>>) \o name
RecordType(c, name) ==
    [kind |-> "Record", isConst |-> c, spelling |-> Qualified(c, S_struct_ \o name)]
EnumType(c, name) ==
    [kind |-> "Enum", isConst |-> c, spelling |-> Qualified(c, S_enum_ \o name)]
TypedefType(c, name, underlying) ==
    [kind |-> "Typedef", isConst |-> c, spelling |-> Qualified(c, name),
     underlying |-> underlying]
UnexposedType(c, canonical) ==
    [kind |-> "Unexposed", isConst |-> c, canonical |-> canonical]

(* What to_zig_type does: it returns a Buf ("ok"), or the process aborts in
   zig_panic ("panic") or zig_unreachable ("unreachable"); err holds the lines
   it has written to stderr by then. *)
StderrLine(text) == [text |-> text, line |-> 0]
print_location(loc) == [text |-> "location", line |-> loc]
Returns(buf, e) == [st |-> "ok", buf |-> buf, err |-> e]
zig_panic(e, msg) == [st |-> "panic", buf |-> <<>>, err |-> Append(e, StderrLine(msg))]
zig_unreachable(e) ==
    [st |-> "unreachable", buf |-> <<>>, err |-> Append(e, StderrLine("unreachable"))]

(* The kinds the switch maps to a fixed string. *)
ScalarKinds ==
    {"Void", "Bool", "SChar", "Char_U", "Char_S", "UChar", "UShort", "UInt",
     "ULong", "ULongLong", "Short", "Int", "Long", "LongLong", "Float",
     "Double", "LongDouble"}

ScalarName(kind) ==
    CASE kind = "Void" -> S_void
      [] kind = "Bool" -> S_bool
      [] kind = "SChar" -> S_i8
      [] kind \in {"Char_U", "Char_S", "UChar"} -> S_u8
      [] kind = "UShort" -> S_c_ushort
      [] kind = "UInt" -> S_c_uint
      [] kind = "ULong" -> S_c_ulong
      [] kind = "ULongLong" -> S_c_ulonglong
      [] kind = "Short" -> S_c_short
      [] kind = "Int" -> S_c_int
      [] kind = "Long" -> S_c_long
      [] kind = "LongLong" -> S_c_longlong
      [] kind = "Float" -> S_f32
      [] kind = "Double" -> S_f64
      [] kind = "LongDouble" -> S_f128

(* The kinds whose case is print_location and zig_panic. *)
TodoKinds ==
    {"WChar", "Char16", "Char32", "UInt128", "Int128", "FunctionNoProto",
     "BlockPointer", "Vector", "LValueReference", "RValueReference",
     "VariableArray", "DependentSizedArray", "MemberPointer", "ObjCInterface",
     "ObjCObjectPointer", "NullPtr", "Overload", "Dependent", "ObjCId",
     "ObjCClass", "ObjCSel", "Complex"}

TodoMessage(kind) ==
    CASE kind = "WChar" -> "TODO wchar"
      [] kind = "Char16" -> "TODO char16"
      [] kind = "Char32" -> "TODO char32"
      [] kind = "UInt128" -> "TODO uint128"
      [] kind = "Int128" -> "TODO int128"
      [] kind = "FunctionNoProto" -> "TODO function no proto"
      [] kind = "BlockPointer" -> "TODO block pointer"
      [] kind = "Vector" -> "TODO vector"
      [] OTHER -> "TODO"

(* buf_sprintf("*const %s", ...) / buf_sprintf("*mut %s", ...) of the
   IncompleteArray case, without the test of the qualifier. *)
IncompleteArrayBufMut(pointee_type, pointee_buf) == S_ptr_mut_ \o pointee_buf

IncompleteArrayBuf(pointee_type, pointee_buf) ==
    IF pointee_type.isConst THEN S_ptr_const_ \o pointee_buf
    ELSE S_ptr_mut_ \o pointee_buf

PointerBuf(pointee_type, pointee_buf) ==
    IF pointee_type.isConst THEN S_ptr_const_ \o pointee_buf
    ELSE S_ptr_mut_ \o pointee_buf

(* The strcmp chain of the Typedef case: the sized type of a fixed-width
   alias, or NullPtr when the name is none of them. *)
FixedWidthAliasSwapped(name) ==
    CASE name = S_int8_t -> S_i8
      [] name = S_uint8_t -> S_u8
      [] name = S_uint16_t -> S_u16
      [] name = S_uint32_t -> S_i32
      [] name = S_uint64_t -> S_u64
      [] name = S_int16_t -> S_i16
      [] name = S_int32_t -> S_u32
      [] name = S_int64_t -> S_i64
      [] OTHER -> NullPtr

FixedWidthAlias(name) ==
    CASE name = S_int8_t -> S_i8
      [] name = S_uint8_t -> S_u8
      [] name = S_uint16_t -> S_u16
      [] name = S_uint32_t -> S_u32
      [] name = S_uint64_t -> S_u64
      [] name = S_int16_t -> S_i16
      [] name = S_int32_t -> S_i32
      [] name = S_int64_t -> S_i64
      [] OTHER -> NullPtr

(* printf's %ld *)
DigitChars == <<"0", "1", "2", "3", "4", "5", "6", "7", "8", "9">>

RECURSIVE Digits(_)
Digits(n) ==
    IF n < 10 THEN <<DigitChars[n + 1]>>
    ELSE Digits(n \div 10) \o <<DigitChars[(n % 10) + 1]>>

FormatLong(n) == IF n < 0 THEN S_minus \o Digits(-n) ELSE Digits(n)

RECURSIVE to_zig_type(_, _)
to_zig_type(loc, t) ==
    IF t.kind = "Unexposed"
    THEN IF t.canonical.kind # "Unexposed"
         THEN to_zig_type(loc, t.canonical)
         ELSE zig_panic(<<>>, "clang C api insufficient")
    ELSE CASE t.kind = "Invalid" -> zig_unreachable(<<>>)
           [] t.kind \in ScalarKinds -> Returns(ScalarName(t.kind), <<>>)
           [] t.kind \in TodoKinds ->
                zig_panic(<<print_location(loc)>>, TodoMessage(t.kind))
           [] t.kind = "IncompleteArray" ->
                LET pointee == to_zig_type(loc, t.element)
                IN  IF pointee.st # "ok" THEN pointee
                    ELSE Returns(IncompleteArrayBuf(t.element, pointee.buf), pointee.err)
           [] t.kind = "Pointer" ->
                LET pointee == to_zig_type(loc, t.pointee)
                IN  IF pointee.st # "ok" THEN pointee
                    ELSE Returns(PointerBuf(t.pointee, pointee.buf), pointee.err)
           [] t.kind \in {"Record", "Enum"} ->
                Returns(prefixes_stripped(t.spelling), <<>>)
           [] t.kind = "Typedef" ->
                LET name == prefixes_stripped(t.spelling)
                IN  IF FixedWidthAlias(name) # NullPtr
                    THEN Returns(FixedWidthAlias(name), <<>>)
                    ELSE to_zig_type(loc, t.underlying)
           [] t.kind = "ConstantArray" ->
                LET child == to_zig_type(loc, t.element)
                IN  IF child.st # "ok" THEN child
                    ELSE Returns(S_lbracket \o child.buf \o S_semi_
                                   \o FormatLong(t.size) \o S_rbracket, child.err)
           [] t.kind = "FunctionProto" ->
                Returns(S_ptr_const_u8,
                        <<StderrLine("warning: TODO function proto"),
                          print_location(loc)>>)

----------------------------------------------------------------------------
(* Values of the variables a specification does not use. *)

IdleStrip == spelling = <<>> /\ stripped = <<>>
IdleType == raw_type = ScalarType("Void", FALSE) /\ zig_type = NullPtr
IdleArgs == env = NullPtr /\ start = 1 /\ clang_argv = <<NullPtr>> /\ argv0 = <<>>

(* ParseH parse_h = {0}, nothing parsed, nothing written *)
NoCursor == [kind |-> "None", spelling |-> <<>>]
IdleRun ==
    /\ fn_list = <<>> /\ cur_fn = <<>> /\ arg_index = 0 /\ cur_indent = 0
    /\ location = 0 /\ out = <<>> /\ err = <<>> /\ diag_count = 0
    /\ cursor = NoCursor /\ stack = <<>> /\ accepted = <<>>

----------------------------------------------------------------------------
(* prefixes_stripped on its own: the spelling is any concatenation of at most
   MaxPieces pieces, and the function is applied to it and then to its own
   result. *)

MaxPieces == 3

S_Foo == <<"F", "o", "o">>

Pieces ==
    {S_struct_, S_enum_, S_const_, <<"c", "o", "n", "s", "t">>, S_Foo, <<"s">>,
     S_space}

RECURSIVE Concatenations(_)
Concatenations(n) ==
    IF n = 0 THEN {<<>>}
    ELSE LET shorter == Concatenations(n - 1)
         IN  shorter \cup {piece \o rest : piece \in Pieces, rest \in shorter}

Spellings == Concatenations(MaxPieces)

InitStrip ==
    /\ pc = "strip"
    /\ spelling \in Spellings
    /\ stripped = <<>>
    /\ IdleType /\ IdleArgs /\ IdleRun

StripCall ==
    /\ pc = "strip"
    /\ Len(stripped) < 2
    /\ stripped' = Append(stripped,
                          prefixes_stripped(IF stripped = <<>> THEN spelling
                                            ELSE stripped[Len(stripped)]))
    /\ UNCHANGED <<pc, spelling, typeVars, argVars, runVars>>

NextStrip == StripCall

SpecStrip == InitStrip /\ [][NextStrip]_vars

----------------------------------------------------------------------------
(* to_zig_type on its own: the type is any descriptor nested at most MaxDepth
   deep. *)

MaxDepth == 2

LeafTypes ==
    {ScalarType(k, c) : k \in ScalarKinds \cup TodoKinds \cup {"FunctionProto", "Invalid"},
                        c \in BOOLEAN}
    \cup {RecordType(c, S_Foo) : c \in BOOLEAN}
    \cup {EnumType(c, S_Foo) : c \in BOOLEAN}

(* The leaves the nested descriptors are built from. *)
NestedLeaves ==
    {ScalarType("Int", FALSE), ScalarType("Int", TRUE), ScalarType("Char_S", TRUE),
     ScalarType("Void", FALSE), ScalarType("WChar", FALSE),
     ScalarType("FunctionProto", FALSE), RecordType(TRUE, S_Foo),
     EnumType(FALSE, S_Foo)}

TypedefNames == {S_uint32_t, S_int8_t, S_Foo}

Wrap(inner) ==
    {PointerType(c, t) : c \in BOOLEAN, t \in inner}
    \cup {IncompleteArrayType(t) : t \in inner}
    \cup {ConstantArrayType(t, n) : t \in inner, n \in {0, 4, 10}}
    \cup {TypedefType(c, name, t) : c \in BOOLEAN, name \in TypedefNames, t \in inner}
    \cup {UnexposedType(FALSE, t) : t \in inner}

RECURSIVE Nested(_)
Nested(d) == IF d = 0 THEN NestedLeaves ELSE NestedLeaves \cup Wrap(Nested(d - 1))

AllTypedefNames ==
    {S_int8_t, S_uint8_t, S_int16_t, S_uint16_t, S_int32_t, S_uint32_t,
     S_int64_t, S_uint64_t, S_Foo, <<"u", "i", "n", "t">>}

Types ==
    LeafTypes \cup Nested(MaxDepth)
    \cup {TypedefType(c, name, t) : c \in BOOLEAN, name \in AllTypedefNames,
                                    t \in {ScalarType("Int", FALSE),
                                           ScalarType("WChar", FALSE)}}

InitType ==
    /\ pc = "classify"
    /\ raw_type \in Types
    /\ zig_type = NullPtr
    /\ IdleStrip /\ IdleArgs /\ IdleRun

Classify ==
    /\ pc = "classify"
    /\ zig_type' = to_zig_type(location, raw_type)
    /\ pc' = "classified"
    /\ UNCHANGED <<raw_type, stripVars, argVars, runVars>>

NextType == Classify

SpecType == InitType /\ [][NextType]_vars

----------------------------------------------------------------------------
(* The head of parse_h_file: ZIG_PARSEH_CFLAGS is split into clang_argv. *)

MaxEnvLen == 4

EnvChars == {"-", "D", " "}

RECURSIVE StringsOfLength(_)
StringsOfLength(n) ==
    IF n = 0 THEN {<<>>}
    ELSE {Append(str, c) : str \in StringsOfLength(n - 1), c \in EnvChars}

S_example_flags ==
    <<"-", "I", "/", "u", "s", "r", "/", "i", "n", "c", "l", "u", "d", "e", " ", " ",
      "-", "D", "F", "O", "O">>

EnvValues ==
    UNION {StringsOfLength(n) : n \in 0..MaxEnvLen} \cup {S_example_flags, NullPtr}

CallerArgs == {<<>>, <<(<<"-", "x">>)>>}

(* strstr(start, " "): the offset of the first space at or after start, 0 for
   the null pointer. *)
strstr_space(str, from) ==
    LET found == {i \in from..Len(str) : str[i] = " "}
    IN  IF found = {} THEN 0
        ELSE CHOOSE i \in found : \A j \in found : i <= j

InitArgs ==
    /\ pc = "getenv"
    /\ env \in EnvValues
    /\ start = 1
    /\ clang_argv \in CallerArgs
    /\ argv0 = clang_argv
    /\ IdleStrip /\ IdleType /\ IdleRun

(* lines 336-340: getenv, and the first strstr when the variable is set *)
GetEnv ==
    /\ pc = "getenv"
    /\ pc' = IF env = NullPtr THEN "sentinel" ELSE "split"
    /\ start' = 1
    /\ UNCHANGED <<env, clang_argv, argv0, stripVars, typeVars, runVars>>

(* one iteration of while (space) *)
SplitAtSpace ==
    /\ pc = "split"
    /\ strstr_space(env, start) # 0
    /\ LET space == strstr_space(env, start)
       IN  /\ clang_argv' = IF space - start > 0
                            THEN Append(clang_argv, SubSeq(env, start, space - 1))
                            ELSE clang_argv
           /\ start' = space + 1
    /\ UNCHANGED <<pc, env, argv0, stripVars, typeVars, runVars>>

(* the loop's exit: what follows the last space is appended *)
SplitRest ==
    /\ pc = "split"
    /\ strstr_space(env, start) = 0
    /\ clang_argv' = Append(clang_argv, SubSeq(env, start, Len(env)))
    /\ pc' = "sentinel"
    /\ UNCHANGED <<env, start, argv0, stripVars, typeVars, runVars>>

(* clang_argv->append(nullptr) *)
AppendSentinel ==
    /\ pc = "sentinel"
    /\ clang_argv' = Append(clang_argv, NullPtr)
    /\ pc' = "args_done"
    /\ UNCHANGED <<env, start, argv0, stripVars, typeVars, runVars>>

NextArgs == GetEnv \/ SplitAtSpace \/ SplitRest \/ AppendSentinel

SpecArgs == InitArgs /\ [][NextArgs]_vars

----------------------------------------------------------------------------
(* The run of parse_h_file from clang_parseTranslationUnit2 on, with
   ZIG_PARSEH_CFLAGS unset and no caller arguments.

   clang_visitChildren is the depth-first walk of the cursors: stack holds
   the cursors fn_visitor answered CXChildVisit_Recurse for and whose children
   are being handed over. The function declarations of the header are written
   with their own parameter list, so an accepted one has one ParmDecl child
   per parameter, in order. A failed assert aborts the process. *)

MaxDiags == 2      \* diagnostics the parse may report
MaxCursors == 4    \* cursors clang_visitChildren hands to fn_visitor
MaxParams == 2     \* parameters of a function declaration

(* allocate<Fn>(1), allocate<Arg>(n): zeroed memory *)
ZeroBuf == <<"Buf{0}">>
ZeroFn == [name |-> ZeroBuf, return_type |-> NullPtr, args |-> <<>>, arg_count |-> 0]
ZeroArg == [name |-> ZeroBuf, type |-> NullPtr]

(* The declarations of the header. *)
StorageClasses ==
    {"None", "Extern", "Static", "PrivateExtern", "OpenCLWorkGroupLocal",
     "Register", "Auto"}
S_f == <<"f">>
S_g == <<"g">>
S_a == <<"a">>
S_b == <<"b">>
ParamNames == {S_a, S_b}
T_int == ScalarType("Int", FALSE)
T_void == ScalarType("Void", FALSE)
T_wchar == ScalarType("WChar", FALSE)
T_complex == ScalarType("Complex", FALSE)
T_string == PointerType(FALSE, ScalarType("Char_S", TRUE))
P_int == [name |-> S_a, type |-> T_int]
P_string == [name |-> S_b, type |-> T_string]
P_wchar == [name |-> S_b, type |-> T_wchar]

(* n parameters, alternately (int a) and (const char *b) *)
Params(first, n) == [i \in 1..n |-> IF i % 2 = 1 THEN first
                                    ELSE IF first = P_int THEN P_string ELSE P_int]

FunctionDecl(name, sc, variadic, cc, result_type, params) ==
    [kind |-> "FunctionDecl", spelling |-> name, storage_class |-> sc,
     variadic |-> variadic, calling_conv |-> cc, result_type |-> result_type,
     params |-> params]

(* void f(int a, const char *b, ...); extern int g(const char *b, int a, ...);
   with 0..MaxParams parameters, and auto int g(void) *)
ExportedDecls ==
    {FunctionDecl(S_f, "None", FALSE, "C", T_void, Params(P_int, n)) : n \in 0..MaxParams}
    \cup {FunctionDecl(S_g, "Extern", FALSE, "C", T_int, Params(P_string, n)) :
            n \in 0..MaxParams}
    \cup {FunctionDecl(S_g, "Auto", FALSE, "C", T_int, <<>>)}

(* exported declarations with a type to_zig_type aborts on: the result type,
   the last parameter's *)
UnclassifiableDecls ==
    {FunctionDecl(S_f, "None", FALSE, "C", T_complex, <<P_int>>)}
    \cup {FunctionDecl(S_g, "Extern", FALSE, "C", T_int,
                       Append(Params(P_int, n - 1), P_wchar)) : n \in 1..MaxParams}

(* declarations one of the three tests skips; wchar_t is a type to_zig_type
   aborts on *)
SkippedDecls ==
    {FunctionDecl(S_f, sc, FALSE, "C", T_void, <<P_wchar>>) :
        sc \in {"Static", "PrivateExtern", "OpenCLWorkGroupLocal", "Register"}}
    \cup {FunctionDecl(S_f, "Static", TRUE, "C", T_void, <<P_wchar>>),
          FunctionDecl(S_f, "Static", FALSE, "X86StdCall", T_void, <<P_wchar>>),
          FunctionDecl(S_f, "None", TRUE, "C", T_void, <<P_wchar>>),
          FunctionDecl(S_f, "Extern", TRUE, "X86StdCall", T_void, <<P_wchar>>),
          FunctionDecl(S_f, "Auto", FALSE, "X86StdCall", T_void, <<P_wchar>>)}

FunctionDecls == ExportedDecls \cup UnclassifiableDecls \cup SkippedDecls

(* The kinds whose case is `return CXChildVisit_Continue` *)
SkippedKinds == {"UnexposedAttr", "CompoundStmt", "FieldDecl", "TypedefDecl"}

(* Kinds of the default case: a linkage specification, which holds
   declarations; a variable, which holds what its declarator names; and a
   reference to a type (TypeRef), which holds nothing. *)
OtherKinds == {"VarDecl", "LinkageSpec"}

Frame(kind, parms) == [kind |-> kind, parms |-> parms]
Top == stack[Len(stack)]
Pop == SubSeq(stack, 1, Len(stack) - 1)

(* A mutant: the static storage class taken for an exported one. *)
is_storage_class_export_static(storage_class) ==
    storage_class \in {"None", "Extern", "Auto", "Static"}

(* CX_SC_Invalid is zig_unreachable(): libclang gives it to no function
   declaration, and no declaration of the header has it. *)
is_storage_class_export(storage_class) ==
    CASE storage_class \in {"None", "Extern", "Auto"} -> TRUE
      [] storage_class \in {"Static", "PrivateExtern", "OpenCLWorkGroupLocal",
                            "Register"} -> FALSE

(* A mutant: the current function is dropped, not appended. *)
end_fn_drop(p) == [p EXCEPT !.cur_fn = <<>>]

end_fn(p) ==
    IF p.cur_fn # <<>>
    THEN [fn_list |-> Append(p.fn_list, p.cur_fn[1]), cur_fn |-> <<>>]
    ELSE p

(* assert(!p->cur_fn) *)
begin_fn_assertion(p) == p.cur_fn = <<>>

RECURSIVE StderrOf(_, _)
StderrOf(results, n) ==
    IF n = 0 THEN <<>> ELSE StderrOf(results, n - 1) \o results[n].err

(* Lines 285-301 for the declaration d at location loc: what the process has
   become (st), ParseH's fn_list and cur_fn, and the lines written to stderr. *)
AcceptFunctionDecl(p, loc, d) ==
    LET ended == end_fn(p)
        count == Len(d.params)
        ret == to_zig_type(loc, d.result_type)
        results == [i \in 1..count |-> to_zig_type(loc, d.params[i].type)]
        failed == {i \in 1..count : results[i].st # "ok"}
        k == IF failed = {} THEN count + 1
             ELSE CHOOSE i \in failed : \A j \in failed : i <= j
        args == [i \in 1..count |->
                   IF i < k THEN [name |-> ZeroBuf, type |-> results[i].buf]
                   ELSE ZeroArg]
        fn == [name |-> d.spelling, return_type |-> ret.buf, args |-> args,
               arg_count |-> count]
    IN  IF ~begin_fn_assertion(ended)
        THEN [st |-> "assert_failed", fn_list |-> ended.fn_list,
              cur_fn |-> ended.cur_fn, err |-> <<StderrLine("assert !p->cur_fn")>>]
        ELSE IF ret.st # "ok"
        THEN [st |-> ret.st, fn_list |-> ended.fn_list, cur_fn |-> <<ZeroFn>>,
              err |-> ret.err]
        ELSE IF k <= count
        THEN [st |-> results[k].st, fn_list |-> ended.fn_list, cur_fn |-> <<fn>>,
              err |-> ret.err \o StderrOf(results, k)]
        ELSE [st |-> "visit", fn_list |-> ended.fn_list, cur_fn |-> <<fn>>,
              err |-> ret.err \o StderrOf(results, count)]

(* A mutant: exit(1) forgotten. *)
AfterDiagnosticsNoExit(n) == "visit"

(* if (diag_count > 0) { ...; exit(1); } *)
AfterDiagnostics(n) == IF n > 0 THEN "exit1" ELSE "visit"

DiagnosticLines(n) == [i \in 1..n |-> [text |-> "diagnostic", line |-> i]]

InitRun ==
    /\ pc = "parse"
    /\ IdleStrip /\ IdleType /\ IdleArgs /\ IdleRun

(* clang_parseTranslationUnit2 returns an error code *)
ParseFails ==
    /\ pc = "parse"
    /\ pc' = "panic"
    /\ err' = Append(err, StderrLine("parse translation unit failure"))
    /\ UNCHANGED <<fn_list, cur_fn, arg_index, cur_indent, location, out,
                   diag_count, cursor, stack, accepted>>
    /\ UNCHANGED <<stripVars, typeVars, argVars>>

(* lines 364-384: the diagnostics, and the root cursor when there is none *)
ParseDone ==
    /\ pc = "parse"
    /\ \E n \in 0..MaxDiags :
         /\ diag_count' = n
         /\ err' = err \o DiagnosticLines(n)
         /\ pc' = AfterDiagnostics(n)
         /\ stack' = IF AfterDiagnostics(n) = "visit"
                     THEN <<Frame("TranslationUnit", <<>>)>> ELSE stack
    /\ UNCHANGED <<fn_list, cur_fn, arg_index, cur_indent, location, out,
                   cursor, accepted>>
    /\ UNCHANGED <<stripVars, typeVars, argVars>>

Names(params) == [i \in 1..Len(params) |-> params[i].name]

(* case CXCursor_FunctionDecl. A function declaration is a child of the
   translation unit or of a declaration of the default case. *)
VisitFunctionDecl ==
    /\ pc = "visit"
    /\ location < MaxCursors
    /\ Top.kind \in {"TranslationUnit", "LinkageSpec"}
    /\ \E d \in FunctionDecls :
         LET loc == location + 1
             done == AcceptFunctionDecl([fn_list |-> fn_list, cur_fn |-> cur_fn],
                                        loc, d)
         IN  /\ cursor' = d
             /\ location' = loc
             /\ IF ~is_storage_class_export(d.storage_class)
                THEN UNCHANGED <<pc, fn_list, cur_fn, arg_index, err, stack, accepted>>
                ELSE IF d.variadic
                THEN /\ err' = err \o <<print_location(loc),
                          StderrLine("warning: skipping variadic function, not yet supported")>>
                     /\ UNCHANGED <<pc, fn_list, cur_fn, arg_index, stack, accepted>>
                ELSE IF d.calling_conv # "C"
                THEN /\ err' = err \o <<print_location(loc),
                          StderrLine("warning: skipping non c calling convention function, not yet supported")>>
                     /\ UNCHANGED <<pc, fn_list, cur_fn, arg_index, stack, accepted>>
                ELSE /\ pc' = done.st
                     /\ fn_list' = done.fn_list
                     /\ cur_fn' = done.cur_fn
                     /\ err' = err \o done.err
                     /\ accepted' = Append(accepted, d)
                     /\ arg_index' = IF done.st = "visit" THEN 0 ELSE arg_index
                     /\ stack' = IF done.st = "visit"
                                 THEN Append(stack, Frame("FunctionDecl", Names(d.params)))
                                 ELSE stack
    /\ UNCHANGED <<cur_indent, out, diag_count>>
    /\ UNCHANGED <<stripVars, typeVars, argVars>>

(* The parameter declarations clang_visitChildren can hand over next: the next
   parameter of the function declaration being visited, or a parameter of the
   function-pointer declarator of a variable, as in
   `extern void ( *handler)(int a);`. *)
NextParmDecls ==
    IF Top.kind = "FunctionDecl"
    THEN (IF Top.parms # <<>> THEN {Head(Top.parms)} ELSE {})
    ELSE IF Top.kind = "VarDecl" THEN ParamNames
    ELSE {}

(* A mutant: the name goes to the slot before arg_index (an index that is
   incremented first). *)
NamedArgsOffByOne(args, index, name) ==
    IF index = 0 THEN args ELSE [args EXCEPT ![index].name = name]

(* buf_init_from_str(&p->cur_fn->args[p->arg_index].name, ...) *)
NamedArgs(args, index, name) == [args EXCEPT ![index + 1].name = name]

(* case CXCursor_ParmDecl *)
VisitParmDecl ==
    /\ pc = "visit"
    /\ location < MaxCursors
    /\ \E name \in NextParmDecls :
         /\ cursor' = [kind |-> "ParmDecl", spelling |-> name]
         /\ location' = location + 1
         /\ IF cur_fn = <<>>
            THEN /\ pc' = "assert_failed"
                 /\ err' = Append(err, StderrLine("assert p->cur_fn"))
                 /\ UNCHANGED <<cur_fn, arg_index, stack>>
            ELSE IF ~(arg_index < cur_fn[1].arg_count)
            THEN /\ pc' = "assert_failed"
                 /\ err' = Append(err,
                          StderrLine("assert p->arg_index < p->cur_fn->arg_count"))
                 /\ UNCHANGED <<cur_fn, arg_index, stack>>
            ELSE /\ cur_fn' = [cur_fn EXCEPT
                                 ![1].args = NamedArgs(cur_fn[1].args, arg_index, name)]
                 /\ arg_index' = arg_index + 1
                 /\ stack' = IF Top.kind = "FunctionDecl"
                             THEN Append(Pop, Frame(Top.kind, Tail(Top.parms)))
                             ELSE stack
                 /\ UNCHANGED <<pc, err>>
    /\ UNCHANGED <<fn_list, cur_indent, out, diag_count, accepted>>
    /\ UNCHANGED <<stripVars, typeVars, argVars>>

(* case CXCursor_UnexposedAttr, CompoundStmt, FieldDecl, TypedefDecl *)
VisitSkipped ==
    /\ pc = "visit"
    /\ location < MaxCursors
    /\ \E kind \in SkippedKinds :
         cursor' = [kind |-> kind, spelling |-> <<>>]
    /\ location' = location + 1
    /\ UNCHANGED <<pc, fn_list, cur_fn, arg_index, cur_indent, out, err,
                   diag_count, stack, accepted>>
    /\ UNCHANGED <<stripVars, typeVars, argVars>>

(* default: return CXChildVisit_Recurse. Inside a function or a variable
   declaration the cursor is a TypeRef. *)
VisitOther ==
    /\ pc = "visit"
    /\ location < MaxCursors
    /\ Top.kind # "TypeRef"
    /\ \E kind \in (IF Top.kind \in {"FunctionDecl", "VarDecl"} THEN {"TypeRef"}
                    ELSE OtherKinds) :
         /\ cursor' = [kind |-> kind, spelling |-> <<>>]
         /\ stack' = Append(stack, Frame(kind, <<>>))
    /\ location' = location + 1
    /\ UNCHANGED <<pc, fn_list, cur_fn, arg_index, cur_indent, out, err,
                   diag_count, accepted>>
    /\ UNCHANGED <<stripVars, typeVars, argVars>>

(* clang_visitChildren is done with the children of the cursor on top: a
   function declaration's once its parameters have all been handed over. *)
LeaveCursor ==
    /\ pc = "visit"
    /\ Len(stack) > 1
    /\ Top.parms = <<>>
    /\ stack' = Pop
    /\ UNCHANGED <<pc, fn_list, cur_fn, arg_index, cur_indent, location, out,
                   err, diag_count, cursor, accepted>>
    /\ UNCHANGED <<stripVars, typeVars, argVars>>

(* clang_visitChildren returns; end_fn(p) *)
EndTraversal ==
    /\ pc = "visit"
    /\ Len(stack) = 1
    /\ LET ended == end_fn([fn_list |-> fn_list, cur_fn |-> cur_fn])
       IN  fn_list' = ended.fn_list /\ cur_fn' = ended.cur_fn
    /\ stack' = <<>>
    /\ pc' = "emit"
    /\ UNCHANGED <<arg_index, cur_indent, location, out, err, diag_count,
                   cursor, accepted>>
    /\ UNCHANGED <<stripVars, typeVars, argVars>>

RECURSIVE print_indent(_)
print_indent(indent) == IF indent <= 0 THEN <<>> ELSE S_space \o print_indent(indent - 1)

(* the loop over fn->args, from arg_i on *)
RECURSIVE PrintArgs(_, _)
PrintArgs(fn, arg_i) ==
    IF ~(arg_i < fn.arg_count) THEN <<>>
    ELSE fn.args[arg_i + 1].name \o S_colon_ \o fn.args[arg_i + 1].type
         \o (IF arg_i + 1 < fn.arg_count THEN S_comma_ ELSE <<>>)
         \o PrintArgs(fn, arg_i + 1)

(* A mutant: the return type printed whatever it is. *)
PrintReturnTypeAlways(return_type) == S_arrow_ \o return_type

PrintReturnType(return_type) ==
    IF return_type # S_void THEN S_arrow_ \o return_type ELSE <<>>

PrintFn(fn, indent) ==
    print_indent(indent) \o S_fn_ \o fn.name \o S_lparen \o PrintArgs(fn, 0)
    \o S_rparen \o PrintReturnType(fn.return_type) \o S_semi_nl

RECURSIVE PrintFns(_, _, _)
PrintFns(list, fn_i, indent) ==
    IF ~(fn_i < Len(list)) THEN <<>>
    ELSE PrintFn(list[fn_i + 1], indent) \o PrintFns(list, fn_i + 1, indent)

(* lines 388-409 *)
Emit ==
    /\ pc = "emit"
    /\ IF Len(fn_list) # 0
       THEN /\ cur_indent' = cur_indent + indent_size
            /\ out' = out \o S_extern_open
                        \o PrintFns(fn_list, 0, cur_indent + indent_size)
                        \o S_close
       ELSE UNCHANGED <<cur_indent, out>>
    /\ pc' = "done"
    /\ UNCHANGED <<fn_list, cur_fn, arg_index, location, err, diag_count,
                   cursor, stack, accepted>>
    /\ UNCHANGED <<stripVars, typeVars, argVars>>

Next ==
    \/ ParseFails \/ ParseDone
    \/ VisitFunctionDecl \/ VisitParmDecl \/ VisitSkipped \/ VisitOther
    \/ LeaveCursor \/ EndTraversal \/ Emit

Spec == InitRun /\ [][Next]_vars

----------------------------------------------------------------------------
(* Text relations the properties are stated with. *)

StartsWith(s, p) == Len(s) >= Len(p) /\ SubSeq(s, 1, Len(p)) = p
IsSuffix(s, t) == Len(s) <= Len(t) /\ SubSeq(t, Len(t) - Len(s) + 1, Len(t)) = s
Qualifiers == {S_struct_, S_enum_, S_const_}

RECURSIVE IsQualifierString(_)
IsQualifierString(s) ==
    \/ s = <<>>
    \/ \E q \in Qualifiers :
          StartsWith(s, q) /\ IsQualifierString(SubSeq(s, Len(q) + 1, Len(s)))

(* C8: the result of prefixes_stripped begins with none of "struct ", "enum ",
   "const "; it is a suffix of the input, and what was removed is a string of
   those qualifiers; stripping the result again changes nothing; and swapping
   the first two qualifiers of the input does not change the result ("const
   struct Foo" and "struct const Foo" both give "Foo", "Foo" gives "Foo"). *)
C8_StripPrefixes ==
    /\ Len(stripped) >= 1 =>
         LET r == stripped[1]
         IN  /\ \A q \in Qualifiers : ~StartsWith(r, q)
             /\ IsSuffix(r, spelling)
             /\ IsQualifierString(SubSeq(spelling, 1, Len(spelling) - Len(r)))
             /\ \A q1, q2 \in Qualifiers :
                  StartsWith(spelling, q1 \o q2) =>
                    r = prefixes_stripped(
                          q2 \o q1 \o SubSeq(spelling, Len(q1) + Len(q2) + 1,
                                              Len(spelling)))
             /\ spelling \in {S_const_ \o S_struct_ \o S_Foo,
                              S_struct_ \o S_const_ \o S_Foo, S_Foo} => r = S_Foo
    /\ Len(stripped) = 2 => stripped[2] = stripped[1]

C8_Witness ==
    /\ spelling = S_const_ \o S_struct_ \o S_Foo
    /\ stripped = <<S_Foo, S_Foo>>

(* The pointee of a pointer, the element of an incomplete array. *)
PointeeOf(t) == IF t.kind = "Pointer" THEN t.pointee ELSE t.element

PointerShape ==
    (pc = "classified" /\ raw_type.kind \in {"Pointer", "IncompleteArray"}
       /\ to_zig_type(location, PointeeOf(raw_type)).st = "ok") =>
      /\ zig_type.st = "ok"
      /\ zig_type.buf =
           (IF PointeeOf(raw_type).isConst THEN S_ptr_const_ ELSE S_ptr_mut_)
             \o to_zig_type(location, PointeeOf(raw_type)).buf

PointerToInt(c) ==
    /\ pc = "classified"
    /\ raw_type.kind = "Pointer"
    /\ raw_type.pointee = ScalarType("Int", c)

(* C6, as amended: a pointer or incomplete array whose pointee or element E is
   classifiable yields "*const " + classify(E) when E is const-qualified and
   "*mut " + classify(E) otherwise, the same for both kinds; a pointer to const
   int yields "*const c_int" and a pointer to mutable int "*mut c_int". *)
C6_PointerConstness ==
    /\ PointerShape
    /\ PointerToInt(TRUE) => zig_type.buf = S_ptr_const_ \o S_c_int
    /\ PointerToInt(FALSE) => zig_type.buf = S_ptr_mut_ \o S_c_int

(* C6, as claimed: ... a pointer to const int yields "*const i32" and a pointer
   to mutable int "*mut i32". *)
C6_PointerConstness_Original ==
    /\ PointerShape
    /\ PointerToInt(TRUE) => zig_type.buf = S_ptr_const_ \o S_i32
    /\ PointerToInt(FALSE) => zig_type.buf = S_ptr_mut_ \o S_i32

C6_Witness ==
    /\ pc = "classified"
    /\ raw_type = IncompleteArrayType(PointerType(FALSE, ScalarType("Int", TRUE)))
    /\ zig_type.buf = S_ptr_mut_ \o S_ptr_const_ \o S_c_int

SizedTypeOf(name) ==
    CASE name = S_int8_t -> S_i8
      [] name = S_int16_t -> S_i16
      [] name = S_int32_t -> S_i32
      [] name = S_int64_t -> S_i64
      [] name = S_uint8_t -> S_u8
      [] name = S_uint16_t -> S_u16
      [] name = S_uint32_t -> S_u32
      [] name = S_uint64_t -> S_u64

FixedWidthNames ==
    {S_int8_t, S_int16_t, S_int32_t, S_int64_t, S_uint8_t, S_uint16_t,
     S_uint32_t, S_uint64_t}

(* C7: a typedef whose spelling, stripped of qualifier prefixes, is one of
   int8_t .. uint64_t classifies as the sized type of that name, whatever its
   underlying type, which is not classified (nothing is written to stderr, no
   abort); any other typedef classifies as its underlying type does. *)
C7_TypedefShortcut ==
    (pc = "classified" /\ raw_type.kind = "Typedef") =>
      LET name == prefixes_stripped(raw_type.spelling)
      IN  IF name \in FixedWidthNames
          THEN zig_type = [st |-> "ok", buf |-> SizedTypeOf(name), err |-> <<>>]
          ELSE zig_type = to_zig_type(location, raw_type.underlying)

C7_Witness ==
    /\ pc = "classified"
    /\ raw_type = TypedefType(TRUE, S_uint32_t, ScalarType("WChar", FALSE))
    /\ zig_type = [st |-> "ok", buf |-> S_u32, err |-> <<>>]

(* The fields of a string split at every single space, empty ones included. *)
RECURSIVE SplitOnSpaces(_)
SplitOnSpaces(str) ==
    IF \A i \in 1..Len(str) : str[i] # " " THEN <<str>>
    ELSE LET k == CHOOSE i \in 1..Len(str) :
                    str[i] = " " /\ \A j \in 1..(i - 1) : str[j] # " "
         IN  <<SubSeq(str, 1, k - 1)>> \o SplitOnSpaces(SubSeq(str, k + 1, Len(str)))

NonEmpty(token) == token # <<>>
Tokens(str) == SelectSeq(SplitOnSpaces(str), NonEmpty)

(* C9: once the argument list is built it is the caller's arguments, then the
   non-empty space-separated tokens of the environment variable in order (none
   when it is unset), then one null sentinel, the last element. *)
C9_FlagSplitting ==
    pc = "args_done" =>
      clang_argv = argv0 \o (IF env = NullPtr THEN <<>> ELSE Tokens(env)) \o <<NullPtr>>

----------------------------------------------------------------------------
(* The run of parse_h_file. *)

Exported == {"None", "Extern", "Auto"}
WarningTexts ==
    {"warning: skipping variadic function, not yet supported",
     "warning: skipping non c calling convention function, not yet supported",
     "warning: TODO function proto"}
Aborted == {"exit1", "panic", "unreachable", "assert_failed"}

(* fn_visitor has just been called with a cursor of this kind *)
Visiting(kind) == location' # location /\ cursor'.kind = kind

(* the lines of e2 after those of e *)
Written(e, e2) == SubSeq(e2, Len(e) + 1, Len(e2))

(* one warning, tagged with the location loc, was written between e and e2 *)
OneWarning(e, e2, loc) ==
    /\ Len(e2) >= Len(e) /\ SubSeq(e2, 1, Len(e)) = e
    /\ Cardinality({i \in 1..Len(Written(e, e2)) :
                       Written(e, e2)[i].text \in WarningTexts}) = 1
    /\ Cardinality({i \in 1..Len(Written(e, e2)) :
                       Written(e, e2)[i] = [text |-> "location", line |-> loc]}) = 1
    /\ Len(Written(e, e2)) = 2

(* ParseH and the traversal are as they were, but for the location *)
Skipped ==
    /\ fn_list' = fn_list /\ cur_fn' = cur_fn /\ arg_index' = arg_index
    /\ accepted' = accepted /\ out' = out
    /\ stack' = stack /\ pc' = "visit"

(* C1: a function declaration whose storage class is not none, extern or auto
   adds no entry and writes no warning; one that passes that test and is
   variadic, or is not variadic and has another calling convention than C,
   adds no entry and writes exactly one warning; in the three cases the
   children of the declaration are not visited and the traversal goes on. *)
C1_SkippedFunctions ==
    [][Visiting("FunctionDecl") =>
         /\ cursor'.storage_class \notin Exported => Skipped /\ err' = err
         /\ (cursor'.storage_class \in Exported /\ cursor'.variadic) =>
              Skipped /\ OneWarning(err, err', location')
         /\ (cursor'.storage_class \in Exported /\ ~cursor'.variadic
               /\ cursor'.calling_conv # "C") =>
              Skipped /\ OneWarning(err, err', location')]_vars

C1_Witness ==
    /\ pc = "visit"
    /\ cursor.kind = "FunctionDecl"
    /\ cursor.storage_class = "Auto" /\ ~cursor.variadic
    /\ cursor.calling_conv = "X86StdCall"
    /\ cur_fn # <<>> /\ cur_fn[1].name = S_g
    /\ Len(fn_list) = 1
    /\ Len(err) = 2

RECURSIVE ExpectedArgs(_)
ExpectedArgs(args) ==
    IF args = <<>> THEN <<>>
    ELSE Head(args).name \o <<":", " ">> \o Head(args).type
         \o (IF Len(args) > 1 THEN <<",", " ">> \o ExpectedArgs(Tail(args)) ELSE <<>>)

ExpectedLine(fn) ==
    <<" ", " ", " ", " ", "f", "n", " ">> \o fn.name \o <<"(">>
    \o ExpectedArgs(fn.args) \o <<")">>
    \o (IF fn.return_type = <<"v", "o", "i", "d">> THEN <<>>
        ELSE <<" ", "-", ">", " ">> \o fn.return_type)
    \o <<";", "\n">>

RECURSIVE ExpectedLines(_)
ExpectedLines(list) ==
    IF list = <<>> THEN <<>> ELSE ExpectedLine(Head(list)) \o ExpectedLines(Tail(list))

ExpectedOutput(list) ==
    IF list = <<>> THEN <<>>
    ELSE <<"e", "x", "t", "e", "r", "n", " ", "{", "\n">> \o ExpectedLines(list)
         \o <<"}", "\n">>

(* C2: what is written is determined by FnList: nothing when it is empty;
   otherwise "extern {", one line per Fn in order, of four spaces, "fn ", the
   name, the arguments "name: type" in order between parentheses and separated
   by ", ", " -> " and the return type unless it is "void", and ";", then
   "}". *)
C2_EmittedText ==
    pc = "done" => out = ExpectedOutput(fn_list)

C2_Witness ==
    /\ pc = "done"
    /\ Len(fn_list) = 2
    /\ out = <<"e", "x", "t", "e", "r", "n", " ", "{", "\n", " ", " ", " ", " ",
           "f", "n", " ", "f", "(", "a", ":", " ", "c", "_", "i", "n", "t", ",",
           " ", "b", ":", " ", "*", "c", "o", "n", "s", "t", " ", "u", "8", ")",
           ";", "\n", " ", " ", " ", " ", "f", "n", " ", "g", "(", ")", " ",
           "-", ">", " ", "c", "_", "i", "n", "t", ";", "\n", "}", "\n">>

(* C3, as claimed: neither assertion of the ParmDecl case ever fails. *)
C3_ParmDeclAssertions ==
    ~(pc = "assert_failed" /\ cursor.kind = "ParmDecl")

(* the entry of FnList made of the accepted declaration d *)
EntryOf(fn, d) ==
    /\ fn.name = d.spelling
    /\ fn.arg_count = Len(d.params)
    /\ Len(fn.args) = Len(d.params)

C4_State ==
    /\ ~(pc = "assert_failed" /\ cursor.kind = "FunctionDecl")
    /\ pc = "visit" =>
         Len(accepted) = Len(fn_list) + (IF cur_fn = <<>> THEN 0 ELSE 1)
    /\ pc \in {"emit", "done"} =>
         /\ cur_fn = <<>>
         /\ Len(fn_list) = Len(accepted)
         /\ \A k \in 1..Len(fn_list) : EntryOf(fn_list[k], accepted[k])

C4_Step ==
    /\ fn_list' # fn_list => cur_fn # <<>> /\ fn_list' = Append(fn_list, cur_fn[1])
    /\ fn_list' # fn_list <=>
         /\ cur_fn # <<>>
         /\ accepted' # accepted \/ (pc = "visit" /\ pc' = "emit")

(* C4: begin_fn never finds a function current; FnList only grows, by the
   current Fn, when the next exported function declaration is accepted and
   when the traversal ends, and then only; once the traversal has ended no
   function is current and FnList holds one entry per accepted declaration,
   in the order of the visit. *)
C4_FnListAppendOnly == [](C4_State) /\ [][C4_Step]_vars

C4_Witness ==
    /\ pc = "emit"
    /\ Len(fn_list) = 3
    /\ fn_list[1].name = S_g /\ fn_list[2].name = S_f /\ fn_list[3].name = S_g
    /\ fn_list[2].arg_count = 1
    /\ cur_fn = <<>>

Unclassifiable(d) ==
    \/ to_zig_type(0, d.result_type).st # "ok"
    \/ \E i \in 1..Len(d.params) : to_zig_type(0, d.params[i].type).st # "ok"

(* C5: nothing is written to the sink before the traversal has ended; a run
   whose parse reported a diagnostic has exited without visiting anything; a
   run in which an accepted declaration has a type the classifier aborts on
   has aborted; an aborted run has written nothing to the sink and takes no
   further step. *)
C5_NoOutputBeforeEnd ==
    /\ pc # "done" => out = <<>>
    /\ diag_count > 0 =>
         /\ pc = "exit1"
         /\ location = 0 /\ cursor = NoCursor /\ stack = <<>>
         /\ fn_list = <<>> /\ cur_fn = <<>>
    /\ (cursor.kind = "FunctionDecl" /\ accepted # <<>>
          /\ accepted[Len(accepted)] = cursor /\ Unclassifiable(cursor)) =>
         pc = "panic"
    /\ pc \in Aborted => out = <<>> /\ ~ENABLED Next

C5_Witness ==
    /\ pc = "panic"
    /\ Len(fn_list) = 2
    /\ cur_fn # <<>>
    /\ out = <<>>

C10_State ==
    \A k \in 1..Len(fn_list) : \A i \in 1..Len(accepted[k].params) :
       fn_list[k].args[i] =
         [name |-> accepted[k].params[i].name,
          type |-> to_zig_type(0, accepted[k].params[i].type).buf]

C10_Step ==
    /\ (accepted' # accepted /\ pc' = "visit") =>
         /\ cur_fn'[1].arg_count = Len(cursor'.params)
         /\ Len(cur_fn'[1].args) = Len(cursor'.params)
         /\ \A i \in 1..Len(cursor'.params) :
              cur_fn'[1].args[i] =
                [name |-> ZeroBuf,
                 type |-> to_zig_type(0, cursor'.params[i].type).buf]
         /\ arg_index' = 0
    /\ (Visiting("ParmDecl") /\ pc' = "visit") =>
         /\ cur_fn # <<>>
         /\ arg_index < cur_fn[1].arg_count
         /\ arg_index' = arg_index + 1
         /\ cur_fn' = <<[cur_fn[1] EXCEPT
                           !.args[arg_index + 1].name = cursor'.spelling]>>
         /\ fn_list' = fn_list

(* C10: accepting a declaration with N parameters sets arg_count to N, the N
   argument types to the classification of the parameter types, in order, and
   arg_index to 0; a parameter declaration then writes the name of
   args[arg_index] and increments arg_index, and nothing else of the current
   Fn or of FnList; so in FnList args[i] is the name of the i-th parameter with
   the classification of its type. *)
C10_ArgsFrame == [](C10_State) /\ [][C10_Step]_vars

C10_Witness ==
    /\ Len(fn_list) = 1
    /\ fn_list[1].args = <<[name |-> S_b, type |-> S_ptr_const_u8],
                           [name |-> S_a, type |-> S_c_int]>>

====
